---- MODULE Spec2Model ----
(***************************************************************************)
(* State-machine model of DataSourceUnsupervised                           *)
(* (src/tasks/response_eval/data_source_unsupervised.py): construction     *)
(* (tokenisation, utterance pool, positive/negative segments, statistics)  *)
(* and the epoch/batch iteration protocol (epoch_init, next).              *)
(*                                                                         *)
(* Python objects are modelled by a heap: every utterance dict is an       *)
(* integer id, `heap` maps the id to the dict's fields, and a reference    *)
(* (a list element, reference_uttr) is the id.  Ids 1..P are the session   *)
(* utterances in pool order, ids above P are the deep copies made for the  *)
(* negative samples, and -i is the copy of i made by the deepcopy of       *)
(* epoch_init(shuffle=True).  0 is "no reference".                         *)
(***************************************************************************)
EXTENDS Integers, Sequences, FiniteSets, TLC

VARIABLES
    pc,               \* "new" | "sampling" | "failed" | "uninitialized" | "ready"
    data,             \* the raw sessions handed to __init__
    history_len,      \* config.history_len
    max_uttr_len,     \* config.max_uttr_len
    heap,             \* utterance objects: id -> fields
    sessions,         \* sessions[s]: the ids of sess["utterances"]
    utterance_pool,   \* self.utterance_pool (ids)
    _segments,        \* self._segments
    statistics,       \* self.statistics
    sess_idx,         \* position of `for sess in sessions` (line 52), 1-based
    segment_end_idx,  \* loop variable of line 54
    negative_uttr,    \* the last random.choice of line 69 (id, 0 before any)
    segments,         \* self.segments
    cur_segment_idx,  \* self.cur_segment_idx
    ret,              \* what the last call returned or raised
    call,             \* the last call: its name, arguments and the state and
                      \* cursor it found
    epoch_trace,      \* history of the epoch: the shuffle argument of its
                      \* epoch_init, the return_paired_Y values its next calls
                      \* used and, while they all used the same value, the
                      \* positions of self.segments they emitted
    driver            \* the caller's loop: its position and what it has received

vars == <<pc, data, history_len, max_uttr_len, heap, sessions, utterance_pool,
          _segments, statistics, sess_idx, segment_end_idx, negative_uttr,
          segments, cur_segment_idx, ret, call, epoch_trace, driver>>

-----------------------------------------------------------------------------
(* Bounds of the explored inputs *)

MaxSessions == 2
MaxPool == 3
MaxIterPool == 2
MaxHistoryLen == 2
MaxBatch == 2
MaxIdsLen == 2

-----------------------------------------------------------------------------
(* Tokenizer adapter (external to the data source; from its interface)      *)

PadId == 0
BosId == 1
EosId == 2

\* convert_string_to_tokens: a text is the sequence of its words
ConvertStringToTokens(text) == text

\* convert_tokens_to_ids(tokens, bos_and_eos=True): word w has id w + EosId
ConvertTokensToIds(tokens) ==
    <<BosId>> \o [i \in 1..Len(tokens) |-> tokens[i] + EosId] \o <<EosId>>

Max(a, b) == IF a >= b THEN a ELSE b

RECURSIVE MaxRowLen(_)
MaxRowLen(rows) ==
    IF rows = <<>> THEN 0 ELSE Max(Len(Head(rows)), MaxRowLen(Tail(rows)))

\* convert_batch_ids_to_tensor: rows right-padded with the pad id to the
\* longest row of the batch
ConvertBatchIdsToTensor(rows) ==
    [r \in 1..Len(rows) |->
        [c \in 1..MaxRowLen(rows) |->
            IF c <= Len(rows[r]) THEN rows[r][c] ELSE PadId]]

-----------------------------------------------------------------------------
(* Inputs *)

Min(a, b) == IF a <= b THEN a ELSE b

\* the texts of the construction runs, as sequences of words: the id sets of
\* two of them are equal, or overlap by 2/3, 3/4 or 1/2
Texts == {<<>>, <<1>>, <<2>>, <<1, 2>>}

\* the values of config.max_uttr_len: the smaller truncates <<1, 2>>
MaxUttrLens == {1, 2}

\* the utterances of the iteration runs: two speakers, one with a text of one
\* word and one with a longer text (so that batches need padding), and one
\* utterance with a floor label that is not a speaker
IterUttrInputs ==
    {[text |-> <<1>>, floor |-> "A"], [text |-> <<2, 2>>, floor |-> "B"],
     [text |-> <<>>, floor |-> "C"]}

RECURSIVE TotalUttrs(_)
TotalUttrs(d) == IF d = <<>> THEN 0 ELSE Len(Head(d)) + TotalUttrs(Tail(d))

\* the datasets of at most k sessions of at least minlen utterances drawn
\* from U, with at most budget utterances in all
RECURSIVE DatasetsOf(_, _, _, _)
DatasetsOf(U, k, budget, minlen) ==
    IF k = 0 THEN {<<>>}
    ELSE {<<>>} \cup
         UNION {{<<sess>> \o rest :
                     rest \in DatasetsOf(U, k - 1, budget - Len(sess), minlen)} :
                   sess \in UNION {[1..n -> U] : n \in minlen..budget}}

\* the sessions of texts td, spoken by two speakers taking turns
AlternatingFloors(td) ==
    [s \in 1..Len(td) |->
        [i \in 1..Len(td[s]) |->
            [text |-> td[s][i], floor |-> IF i % 2 = 1 THEN "A" ELSE "B"]]]

NoRet == [kind |-> "noret"]
NoCall == [op |-> "none"]
NoTrace == [shuffle |-> FALSE, paired |-> {}, positions |-> <<>>]
NoDriver == [pc |-> "idle"]

InitSource(D, L) ==
    /\ pc = "new"
    /\ data \in D
    /\ history_len \in 1..MaxHistoryLen
    /\ max_uttr_len \in L
    /\ heap = <<>>
    /\ sessions = <<>>
    /\ utterance_pool = <<>>
    /\ _segments = <<>>
    /\ statistics = [n_sessions |-> 0, n_uttrs |-> 0, n_tokens |-> 0, n_segments |-> 0]
    /\ sess_idx = 0
    /\ segment_end_idx = 0
    /\ negative_uttr = 0
    /\ segments = <<>>
    /\ cur_segment_idx = 0
    /\ ret = NoRet
    /\ call = NoCall
    /\ epoch_trace = NoTrace

\* a data source by itself: no caller's loop is running
InitOf(D, L) == InitSource(D, L) /\ driver = NoDriver

\* the full protocol, over the iteration inputs
Init == InitOf(DatasetsOf(IterUttrInputs, MaxSessions, MaxIterPool, 1), {2})

\* the construction, over every text, with sessions that may be empty
InitBuild ==
    InitOf({AlternatingFloors(td) : td \in DatasetsOf(Texts, MaxSessions, MaxPool, 0)},
           MaxUttrLens)

\* the sampling loop, over the sessions of every text, one session at a time
InitSampling ==
    InitOf({AlternatingFloors(td) : td \in DatasetsOf(Texts, 1, MaxPool, 0)},
           MaxUttrLens)

\* unshuffled epochs, over the iteration inputs with more utterances
InitCanonical == InitOf(DatasetsOf(IterUttrInputs, MaxSessions, MaxPool, 1), {2})

-----------------------------------------------------------------------------
(* __init__, lines 16-48: tokenisation and the utterance pool *)

\* seq[:n]
Take(seq, n) == SubSeq(seq, 1, Min(n, Len(seq)))

\* ["A", "B"].index(floor); -1 stands for the ValueError of a label not in the list
FloorIdLenient(floor) == IF floor = "A" THEN 0 ELSE 1

FloorId(floor) == IF floor = "A" THEN 0 ELSE IF floor = "B" THEN 1 ELSE -1

\* the fields of an utterance after uttr.update(...) of lines 31-42;
\* reference_uttr is utterance_meta["reference_uttr"], 0 while absent
ProcessUttr(u, maxlen) ==
    LET tokens == Take(ConvertStringToTokens(u.text), maxlen)
    IN  [text |-> u.text,
         floor |-> u.floor,
         tokens |-> tokens,
         token_ids |-> ConvertTokensToIds(tokens),
         floor_id |-> FloorId(u.floor),
         is_next |-> TRUE,
         reference_uttr |-> 0]

RECURSIVE SessOffset(_, _)
SessOffset(d, s) == IF s <= 1 THEN 0 ELSE Len(d[s-1]) + SessOffset(d, s-1)

\* the ids of the utterance objects of every session; the pool (lines 45-48)
\* appends them session by session, so the id is the position in the pool
SessionIds(d) ==
    [s \in 1..Len(d) |-> [i \in 1..Len(d[s]) |-> SessOffset(d, s) + i]]

UtterancePool(d) == [p \in 1..TotalUttrs(d) |-> p]

ProcessSessions(d, maxlen) ==
    LET ids == SessionIds(d)
        where(p) == CHOOSE si \in {<<s, i>> : s \in 1..Len(d), i \in 1..TotalUttrs(d)} :
                        /\ si[2] <= Len(d[si[1]])
                        /\ ids[si[1]][si[2]] = p
    IN  [p \in 1..TotalUttrs(d) |-> ProcessUttr(d[where(p)[1]][where(p)[2]], maxlen)]

InvalidFloorLabel(d) ==
    \E s \in 1..Len(d) : \E i \in 1..Len(d[s]) : FloorId(d[s][i].floor) = -1

-----------------------------------------------------------------------------
(* __init__, lines 50-89: segments and statistics *)

CoverageNum == 4
CoverageDen == 5

IdSet(ids) == {ids[i] : i \in 1..Len(ids)}

\* _are_different_uttrs: (|I|/|A| + |I|/|B|)/2 < 0.8, in exact arithmetic
\* (both sets hold bos and eos here, so neither is empty)
AreDifferentUttrsNever(ids1, ids2) == FALSE

AreDifferentUttrsFlipped(ids1, ids2) ==
    LET id_set1 == IdSet(ids1)
        id_set2 == IdSet(ids2)
        inter == Cardinality(id_set1 \cap id_set2)
        n1 == Cardinality(id_set1)
        n2 == Cardinality(id_set2)
    IN  CoverageDen * inter * (n1 + n2) >= CoverageNum * 2 * n1 * n2

AreDifferentUttrs(ids1, ids2) ==
    LET id_set1 == IdSet(ids1)
        id_set2 == IdSet(ids2)
        inter == Cardinality(id_set1 \cap id_set2)
        n1 == Cardinality(id_set1)
        n2 == Cardinality(id_set2)
    IN  CoverageDen * inter * (n1 + n2) < CoverageNum * 2 * n1 * n2

\* a call of _are_different_uttrs: line 95 divides by the sizes of the two
\* sets, in this order
AreDifferentOutcome(ids1, ids2) ==
    IF IdSet(ids1) = {} \/ IdSet(ids2) = {}
    THEN [kind |-> "error", error |-> "ZeroDivisionError"]
    ELSE [kind |-> "value", value |-> AreDifferentUttrs(ids1, ids2)]

\* the next (sess, segment_end_idx) of the loops of lines 52-54 at or after
\* (s, e); <<0, 0>> when both loops are over
RECURSIVE AdvanceLoopShort(_, _, _)
RECURSIVE AdvanceLoop(_, _, _)
AdvanceLoopShort(ss, s, e) ==
    IF s > Len(ss) THEN <<0, 0>>
    ELSE IF e <= Len(ss[s]) - 2 THEN <<s, e>>
    ELSE AdvanceLoopShort(ss, s + 1, 1)

AdvanceLoop(ss, s, e) ==
    IF s > Len(ss) THEN <<0, 0>>
    ELSE IF e <= Len(ss[s]) - 1 THEN <<s, e>>
    ELSE AdvanceLoop(ss, s + 1, 1)

\* line 57
SegmentStartIdxWide(end, hl) == Max(0, end - hl - 1)

SegmentStartIdx(end, hl) == Max(0, end - hl)

\* uttrs[segment_start_idx:segment_end_idx+1] (line 59), 0-based slice
PositiveUtterances(uttrs, end, hl) ==
    SubSeq(uttrs, SegmentStartIdx(end, hl) + 1, end + 1)

\* uttrs[segment_start_idx:segment_end_idx] (line 77), 0-based slice
NegativeContext(uttrs, end, hl) ==
    SubSeq(uttrs, SegmentStartIdx(end, hl) + 1, end)

\* text.split(" ") of a text of n words has n parts, and one part when empty
SplitLen(text) == IF Len(text) = 0 THEN 1 ELSE Len(text)

RECURSIVE SumSplitLen(_, _)
SumSplitLen(h, p) == IF p = 0 THEN 0 ELSE SplitLen(h[p].text) + SumSplitLen(h, p - 1)

\* lines 83-89
Statistics(d, h, segs) ==
    [n_sessions |-> Len(d),
     n_uttrs |-> TotalUttrs(d),
     n_tokens |-> SumSplitLen(h, TotalUttrs(d)),
     n_segments |-> Len(segs)]

\* line 80: the negative segment goes after the positive one of line 64
InsertNegativeFirst(segs, segment) ==
    SubSeq(segs, 1, Len(segs) - 1) \o <<segment, segs[Len(segs)]>>

AppendNegative(segs, segment) == Append(segs, segment)

\* copy.deepcopy(negative_uttr) into the fresh object `fresh`: the copy of a
\* self-reference refers to the copy
DeepCopyAlias(h, src, fresh) == [id |-> src, heap |-> h]

DeepCopyUttr(h, src, fresh) ==
    [id |-> fresh,
     heap |-> [o \in DOMAIN h \cup {fresh} |->
                  IF o = fresh
                  THEN [h[src] EXCEPT !.reference_uttr =
                            IF h[src].reference_uttr = src THEN fresh
                            ELSE h[src].reference_uttr]
                  ELSE h[o]]]

\* lines 74-75 on the copy `id` drawn for the positive positive_uttr
MarkNegativeKeepsNext(h, id, positive_uttr) ==
    [h EXCEPT ![id].reference_uttr = positive_uttr]

MarkNegative(h, id, positive_uttr) ==
    [h EXCEPT ![id].reference_uttr = positive_uttr, ![id].is_next = FALSE]

\* From loop position pos, run up to the next random.choice: lines 56-67 build
\* the positive segment of pos; when the loops are over, lines 82-89 finish
\* the construction.
RunToDraw(h, segs, ss, pos) ==
    IF pos = <<0, 0>>
    THEN /\ pc' = "uninitialized"
         /\ heap' = h
         /\ _segments' = segs
         /\ statistics' = Statistics(data, h, segs)
         /\ sess_idx' = 0
         /\ segment_end_idx' = 0
    ELSE LET uttrs == ss[pos[1]]
             positive_uttr == uttrs[pos[2] + 1]
         IN  /\ pc' = "sampling"
             /\ heap' = [h EXCEPT ![positive_uttr].reference_uttr = positive_uttr]
             /\ _segments' = Append(segs,
                    [utterances |-> PositiveUtterances(uttrs, pos[2], history_len)])
             /\ statistics' = statistics
             /\ sess_idx' = pos[1]
             /\ segment_end_idx' = pos[2]

\* __init__ up to the first draw of a negative (or to its end when no session
\* has two utterances); list.index raises on a floor other than "A"/"B"
Construct ==
    /\ pc = "new"
    /\ ~InvalidFloorLabel(data)
    /\ sessions' = SessionIds(data)
    /\ utterance_pool' = UtterancePool(data)
    /\ RunToDraw(ProcessSessions(data, max_uttr_len), <<>>, SessionIds(data),
                 AdvanceLoop(SessionIds(data), 1, 1))
    /\ call' = [op |-> "__init__"]
    /\ UNCHANGED <<data, history_len, max_uttr_len, negative_uttr, segments,
                   cur_segment_idx, ret, epoch_trace, driver>>

ConstructFail ==
    /\ pc = "new"
    /\ InvalidFloorLabel(data)
    /\ pc' = "failed"
    /\ ret' = [kind |-> "error", error |-> "ValueError"]
    /\ call' = [op |-> "__init__"]
    /\ UNCHANGED <<data, history_len, max_uttr_len, heap, sessions, utterance_pool,
                   _segments, statistics, sess_idx, segment_end_idx, negative_uttr,
                   segments, cur_segment_idx, epoch_trace, driver>>

PositiveUttr == sessions[sess_idx][segment_end_idx + 1]

\* lines 68-72: a draw the test rejects; the loop draws again
SampleReject ==
    /\ pc = "sampling"
    /\ \E c \in 1..Len(utterance_pool) :
        /\ ~AreDifferentUttrs(heap[PositiveUttr].token_ids,
                              heap[utterance_pool[c]].token_ids)
        /\ negative_uttr' = utterance_pool[c]
    /\ UNCHANGED <<pc, data, history_len, max_uttr_len, heap, sessions, utterance_pool,
                   _segments, statistics, sess_idx, segment_end_idx, segments,
                   cur_segment_idx, ret, call, epoch_trace, driver>>

\* lines 68-80: a draw the test accepts, the negative segment, and on to the
\* next draw
SampleAccept ==
    /\ pc = "sampling"
    /\ \E c \in 1..Len(utterance_pool) :
        /\ AreDifferentUttrs(heap[PositiveUttr].token_ids,
                             heap[utterance_pool[c]].token_ids)
        /\ negative_uttr' = utterance_pool[c]
        /\ LET uttrs == sessions[sess_idx]
               fresh == Len(utterance_pool) + (Len(_segments) + 1) \div 2
               cp == DeepCopyUttr(heap, utterance_pool[c], fresh)
               marked == MarkNegative(cp.heap, cp.id, PositiveUttr)
               segment == [utterances |->
                              Append(NegativeContext(uttrs, segment_end_idx, history_len),
                                     cp.id)]
           IN  RunToDraw(marked, AppendNegative(_segments, segment), sessions,
                         AdvanceLoop(sessions, sess_idx, segment_end_idx + 1))
    /\ sessions' = sessions
    /\ UNCHANGED <<data, history_len, max_uttr_len, utterance_pool, segments,
                   cur_segment_idx, ret, call, epoch_trace, driver>>

-----------------------------------------------------------------------------
(* epoch_init, lines 101-107 *)

Constructed == pc \in {"uninitialized", "ready"}

SegmentIds(segs) ==
    UNION {{segs[k].utterances[j] : j \in 1..Len(segs[k].utterances)} : k \in 1..Len(segs)}

\* the objects copy.deepcopy(self._segments) reaches: the utterances of the
\* segments and, through reference_uttr, the objects they refer to
RECURSIVE Reachable(_, _)
Reachable(h, ids) ==
    LET more == ids \cup ({h[o].reference_uttr : o \in ids} \ {0})
    IN  IF more = ids THEN ids ELSE Reachable(h, more)

\* copy.deepcopy(self._segments): object o is copied once, to -o, and every
\* reference into the copied structure is redirected to the copy
DeepCopySegments(segs) ==
    [k \in 1..Len(segs) |->
        [utterances |-> [j \in 1..Len(segs[k].utterances) |-> -segs[k].utterances[j]]]]

Originals(h) == {o \in DOMAIN h : o > 0}

DeepCopyHeapMoving(h, segs) ==
    LET copied == Reachable(h, SegmentIds(segs))
    IN  [o \in (Originals(h) \ copied) \cup {-c : c \in copied} |->
            IF o > 0 THEN h[o]
            ELSE [h[-o] EXCEPT !.reference_uttr = -h[-o].reference_uttr]]

DeepCopyHeap(h, segs) ==
    LET copied == Reachable(h, SegmentIds(segs))
    IN  [o \in Originals(h) \cup {-c : c \in copied} |->
            IF o > 0 THEN h[o]
            ELSE [h[-o] EXCEPT !.reference_uttr = -h[-o].reference_uttr]]

\* the heap without the copies of an earlier epoch, which nothing refers to
\* once self.segments is reassigned
DropCopies(h) == [o \in Originals(h) |-> h[o]]

RECURSIVE Orders(_)
Orders(S) ==
    IF S = {} THEN {<<>>}
    ELSE UNION {{<<x>> \o o : o \in Orders(S \ {x})} : x \in S}

\* the orders random.shuffle can leave a list in
ShufflesWithRepeats(seq) == [1..Len(seq) -> {seq[k] : k \in 1..Len(seq)}]

Shuffles(seq) == {[k \in 1..Len(seq) |-> seq[o[k]]] : o \in Orders(1..Len(seq))}

\* line 102, whatever the cursor was
CursorKept(idx) == idx

CursorAfterInit(idx) == 0

\* the call itself, whoever makes it
EpochInitCall(shuffle) ==
    /\ Constructed
    /\ cur_segment_idx' = CursorAfterInit(cur_segment_idx)
    /\ IF shuffle
       THEN /\ heap' = DeepCopyHeap(heap, _segments)
            /\ segments' \in Shuffles(DeepCopySegments(_segments))
       ELSE /\ heap' = DropCopies(heap)
            /\ segments' = _segments
    /\ call' = [op |-> "epoch_init", shuffle |-> shuffle, from |-> pc,
                idx |-> cur_segment_idx]
    /\ pc' = "ready"
    /\ ret' = NoRet
    /\ epoch_trace' = [NoTrace EXCEPT !.shuffle = shuffle]
    /\ UNCHANGED <<data, history_len, max_uttr_len, sessions, utterance_pool,
                   _segments, statistics, sess_idx, segment_end_idx, negative_uttr>>

EpochInitWith(shuffle) == EpochInitCall(shuffle) /\ UNCHANGED driver

EpochInit == \E shuffle \in BOOLEAN : EpochInitWith(shuffle)

\* the call of the evaluation loops, which never shuffle
EpochInitCanonical == EpochInitWith(FALSE)

-----------------------------------------------------------------------------
(* next, lines 112-188 *)

\* the batch sizes callers try; a negative one never fills the batch
BatchSizes == (-1)..MaxBatch

\* lines 122-129
EmptyIds == ConvertTokensToIds(ConvertStringToTokens(<<>>))
PaddingUttr == [tokens |-> ConvertStringToTokens(<<>>), token_ids |-> EmptyIds, floor_id |-> 0]

\* n copies of x
Repeat(x, n) == [i \in 1..n |-> x]

EmptyAcc(idx) ==
    [X |-> <<>>, X_floor |-> <<>>, Y |-> <<>>, Y_floor |-> <<>>,
     Y_is_next |-> <<>>, Y_ref |-> <<>>, idx |-> idx, skipped |-> 0, pos |-> <<>>]

\* line 149: range(self.history_len-len(segment_uttrs)+1) of a segment of n
\* utterances
PaddingCountNone(hl, n) == 0

PaddingCount(hl, n) == Max(0, hl - n + 1)

\* lines 143-162: one accepted segment appended to the lists; acc.idx is the
\* cursor after line 137, the position of the segment counted from 1
EmitPaddingFirst(h, hl, acc, segment_uttrs) ==
    LET n == Len(segment_uttrs)
        ctx == SubSeq(segment_uttrs, 1, n - 1)
        npad == PaddingCount(hl, n)
        uttr == h[segment_uttrs[n]]
        ref_uttr == h[uttr.reference_uttr]
    IN  [acc EXCEPT
            !.X = @ \o Repeat(PaddingUttr.token_ids, npad)
                    \o [j \in 1..Len(ctx) |-> h[ctx[j]].token_ids],
            !.X_floor = @ \o Repeat(PaddingUttr.floor_id, npad)
                          \o [j \in 1..Len(ctx) |-> h[ctx[j]].floor_id],
            !.Y = Append(@, uttr.token_ids),
            !.Y_floor = Append(@, uttr.floor_id),
            !.Y_is_next = Append(@, uttr.is_next),
            !.Y_ref = Append(@, ref_uttr.token_ids),
            !.pos = Append(@, acc.idx)]

EmitTargetAsRef(h, hl, acc, segment_uttrs) ==
    LET n == Len(segment_uttrs)
        ctx == SubSeq(segment_uttrs, 1, n - 1)
        npad == PaddingCount(hl, n)
        uttr == h[segment_uttrs[n]]
    IN  [acc EXCEPT
            !.X = @ \o [j \in 1..Len(ctx) |-> h[ctx[j]].token_ids]
                    \o Repeat(PaddingUttr.token_ids, npad),
            !.X_floor = @ \o [j \in 1..Len(ctx) |-> h[ctx[j]].floor_id]
                          \o Repeat(PaddingUttr.floor_id, npad),
            !.Y = Append(@, uttr.token_ids),
            !.Y_floor = Append(@, uttr.floor_id),
            !.Y_is_next = Append(@, uttr.is_next),
            !.Y_ref = Append(@, uttr.token_ids),
            !.pos = Append(@, acc.idx)]

Emit(h, hl, acc, segment_uttrs) ==
    LET n == Len(segment_uttrs)
        ctx == SubSeq(segment_uttrs, 1, n - 1)
        npad == PaddingCount(hl, n)
        uttr == h[segment_uttrs[n]]
        ref_uttr == h[uttr.reference_uttr]
    IN  [acc EXCEPT
            !.X = @ \o [j \in 1..Len(ctx) |-> h[ctx[j]].token_ids]
                    \o Repeat(PaddingUttr.token_ids, npad),
            !.X_floor = @ \o [j \in 1..Len(ctx) |-> h[ctx[j]].floor_id]
                          \o Repeat(PaddingUttr.floor_id, npad),
            !.Y = Append(@, uttr.token_ids),
            !.Y_floor = Append(@, uttr.floor_id),
            !.Y_is_next = Append(@, uttr.is_next),
            !.Y_ref = Append(@, ref_uttr.token_ids),
            !.pos = Append(@, acc.idx)]

\* the while loop of lines 131-162; acc.idx is self.cur_segment_idx and
\* acc.skipped counts the `continue` of line 141 (the lists at the head of an
\* iteration are bound once, as a, and not computed again at each use)
RECURSIVE NextLoop(_, _, _, _, _, _)
NextLoop(segs, h, hl, batch_size, return_paired_Y, acc) ==
    LET Iteration(a) ==
            IF ~(a.idx < Len(segs)) THEN a
            ELSE IF Len(a.Y) = batch_size THEN a
            ELSE LET segment_uttrs == segs[a.idx + 1].utterances
                     advanced == [a EXCEPT !.idx = @ + 1]
                 IN  IF return_paired_Y /\ h[segment_uttrs[Len(segment_uttrs)]].is_next
                     THEN NextLoop(segs, h, hl, batch_size, return_paired_Y,
                                   [advanced EXCEPT !.skipped = @ + 1])
                     ELSE NextLoop(segs, h, hl, batch_size, return_paired_Y,
                                   Emit(h, hl, advanced, segment_uttrs))
    IN  CHOOSE r \in {Iteration(a) : a \in {acc}} : TRUE

RunLoopEmittedOnly(segs, h, hl, idx, batch_size, return_paired_Y) ==
    LET acc == NextLoop(segs, h, hl, batch_size, return_paired_Y, EmptyAcc(idx))
    IN  [acc EXCEPT !.idx = idx + Len(acc.Y)]

RunLoopAdvanceByBatch(segs, h, hl, idx, batch_size, return_paired_Y) ==
    LET acc == NextLoop(segs, h, hl, batch_size, return_paired_Y, EmptyAcc(idx))
    IN  [acc EXCEPT !.idx = idx + batch_size]

RunLoopOverfill(segs, h, hl, idx, batch_size, return_paired_Y) ==
    NextLoop(segs, h, hl, batch_size + 1, return_paired_Y, EmptyAcc(idx))

RunLoopNoSkip(segs, h, hl, idx, batch_size, return_paired_Y) ==
    NextLoop(segs, h, hl, batch_size, FALSE, EmptyAcc(idx))

RunLoop(segs, h, hl, idx, batch_size, return_paired_Y) ==
    NextLoop(segs, h, hl, batch_size, return_paired_Y, EmptyAcc(idx))

\* tensor.view(batch_size, history_len, ...): rows regrouped per sample
View(rows, batch_size, hl) ==
    [b \in 1..batch_size |-> [j \in 1..hl |-> rows[(b - 1) * hl + j]]]

\* lines 164-188: the lists turned into the batch; Y.size(0) = 0 makes the
\* division of line 169 raise
MakeBatch(acc) ==
    LET batch_size == Len(acc.Y)
        hl == Len(acc.X) \div batch_size
    IN  IF batch_size = 0
        THEN [kind |-> "error", error |-> "ZeroDivisionError"]
        ELSE IF batch_size * hl # Len(acc.X)
        THEN [kind |-> "error", error |-> "RuntimeError"]
        ELSE [kind |-> "batch",
              X |-> View(ConvertBatchIdsToTensor(acc.X), batch_size, hl),
              X_floor |-> View(acc.X_floor, batch_size, hl),
              Y |-> ConvertBatchIdsToTensor(acc.Y),
              Y_ref |-> ConvertBatchIdsToTensor(acc.Y_ref),
              Y_floor |-> acc.Y_floor,
              Y_is_next |-> acc.Y_is_next]

\* the history after a call that emitted the segments at positions pos; the
\* positions are kept while every call of the epoch filters alike
TraceCall(trace, return_paired_Y, pos) ==
    LET paired == trace.paired \cup {return_paired_Y}
    IN  [shuffle |-> trace.shuffle,
         paired |-> paired,
         positions |-> IF paired = {return_paired_Y} THEN trace.positions \o pos
                       ELSE <<>>]

NextCall(batch_size, return_paired_Y, acc) ==
    [op |-> "next", batch_size |-> batch_size, return_paired_Y |-> return_paired_Y,
     idx |-> cur_segment_idx, emitted |-> Len(acc.Y), skipped |-> acc.skipped,
     positions |-> acc.pos]

\* line 114
ExhaustedNever(idx, segs) == FALSE

ExhaustedEarly(idx, segs) == idx + 1 >= Len(segs)

Exhausted(idx, segs) == idx = Len(segs)

\* lines 114-115, whoever makes the call
NextExhaustedCall(batch_size, return_paired_Y) ==
    /\ pc = "ready"
    /\ Exhausted(cur_segment_idx, segments)
    /\ call' = NextCall(batch_size, return_paired_Y, EmptyAcc(cur_segment_idx))
    /\ ret' = [kind |-> "None"]
    /\ UNCHANGED <<pc, data, history_len, max_uttr_len, heap, sessions, utterance_pool,
                   _segments, statistics, sess_idx, segment_end_idx, negative_uttr,
                   segments, cur_segment_idx, epoch_trace>>

NextExhausted ==
    /\ \E batch_size \in BatchSizes, return_paired_Y \in BOOLEAN :
        NextExhaustedCall(batch_size, return_paired_Y)
    /\ UNCHANGED driver

\* lines 117-188, whoever makes the call
NextBatchCall(batch_size, return_paired_Y) ==
    /\ pc = "ready"
    /\ ~Exhausted(cur_segment_idx, segments)
    /\ \E acc \in {RunLoop(segments, heap, history_len, cur_segment_idx,
                             batch_size, return_paired_Y)} :
           /\ cur_segment_idx' = acc.idx
           /\ ret' = MakeBatch(acc)
           /\ call' = NextCall(batch_size, return_paired_Y, acc)
           /\ epoch_trace' = TraceCall(epoch_trace, return_paired_Y, acc.pos)
    /\ UNCHANGED <<pc, data, history_len, max_uttr_len, heap, sessions, utterance_pool,
                   _segments, statistics, sess_idx, segment_end_idx, negative_uttr,
                   segments>>

NextBatch ==
    /\ \E batch_size \in BatchSizes, return_paired_Y \in BOOLEAN :
        NextBatchCall(batch_size, return_paired_Y)
    /\ UNCHANGED driver

\* what line 114 does while self.cur_segment_idx does not exist
UninitializedOutcomeNone == [kind |-> "None"]

UninitializedOutcome == [kind |-> "error", error |-> "AttributeError"]

\* next before any epoch_init: self.cur_segment_idx does not exist (line 114)
NextUninitialized ==
    /\ pc = "uninitialized"
    /\ \E batch_size \in BatchSizes, return_paired_Y \in BOOLEAN :
        call' = NextCall(batch_size, return_paired_Y, EmptyAcc(cur_segment_idx))
    /\ ret' = UninitializedOutcome
    /\ UNCHANGED <<pc, data, history_len, max_uttr_len, heap, sessions, utterance_pool,
                   _segments, statistics, sess_idx, segment_end_idx, negative_uttr,
                   segments, cur_segment_idx, epoch_trace, driver>>

Next ==
    \/ Construct
    \/ ConstructFail
    \/ SampleReject
    \/ SampleAccept
    \/ EpochInit
    \/ NextExhausted
    \/ NextBatch
    \/ NextUninitialized

Spec == Init /\ [][Next]_vars

\* __init__ alone, over the wider inputs (every floor label is a speaker)
NextBuild ==
    \/ Construct
    \/ SampleReject
    \/ SampleAccept

SpecBuild == InitBuild /\ [][NextBuild]_vars

\* __init__ runs on, and a uniform random.choice that is repeated for ever
\* returns every utterance of the pool again and again: a draw that the test
\* accepts is made sooner or later when there is one
SpecBuildFair ==
    /\ InitSampling
    /\ [][NextBuild]_vars
    /\ WF_vars(Construct)
    /\ WF_vars(SampleAccept)

\* construction followed by unshuffled epochs only
NextCanonical ==
    \/ Construct
    \/ ConstructFail
    \/ SampleReject
    \/ SampleAccept
    \/ EpochInitCanonical
    \/ NextExhausted
    \/ NextBatch
    \/ NextUninitialized

SpecCanonical == InitCanonical /\ [][NextCanonical]_vars

\* the full protocol over the inputs of the unshuffled epochs: sessions with
\* two positives, in epochs of either kind
SpecEpochs == InitCanonical /\ [][Next]_vars

-----------------------------------------------------------------------------
(* The caller's loop of train.py: epoch_init, then next until None *)

\* the batch sizes of the loops (config.batch_size, config.eval_batch_size);
\* one exceeds every segment count that is not a multiple of it
DrainBatchSizes == 1..(MaxBatch + 1)

\* lines 246 and 382: the loop begins, with or without shuffle
DrainStart ==
    /\ driver.pc \in {"idle", "done"}
    /\ \E shuffle \in BOOLEAN : EpochInitCall(shuffle)
    /\ \E batch_size \in DrainBatchSizes :
        driver' = [pc |-> "loop", batch_size |-> batch_size, n_batches |-> 0,
                   n_targets |-> 0]

\* lines 247-250 and 385-388: one turn of `while True`; None ends the loop,
\* a batch is handed on, an exception leaves the program
DrainNext ==
    /\ driver.pc = "loop"
    /\ \/ NextExhaustedCall(driver.batch_size, FALSE)
       \/ NextBatchCall(driver.batch_size, FALSE)
    /\ driver' = IF ret'.kind = "None" THEN [driver EXCEPT !.pc = "done"]
                 ELSE IF ret'.kind = "batch"
                 THEN [driver EXCEPT !.n_batches = @ + 1,
                                     !.n_targets = @ + Len(ret'.Y)]
                 ELSE [driver EXCEPT !.pc = "crashed"]

NextDrain ==
    \/ Construct
    \/ ConstructFail
    \/ SampleReject
    \/ SampleAccept
    \/ DrainStart
    \/ DrainNext

\* the loop body always comes back to the next call
SpecDrain == Init /\ [][NextDrain]_vars /\ WF_vars(DrainNext)

-----------------------------------------------------------------------------
(* The training driver of tasks/response_gen/train.py, lines 237-390.  Its
   three data sources are of the class tasks.response_gen.data_source.DataSource,
   which follows the iteration contract of epoch_init and next: each is a
   segment count and a cursor. *)

\* the segment counts of the train and dev lists, the number of epochs and
\* the periods of sampling and validation that are tried
MaxList == 2
MaxEpochs == 2
MaxPeriod == 2

\* the segment counts of the test list that are tried: some below and some
\* not below the number of samples drawn
MaxTestList == 6

\* line 287: range(5)
SampleCount == 5

SourceNames == {"train", "dev", "test"}

\* next(batch_size) of a data source of `size` segments with its cursor at
\* `cursor`: None when exhausted, else a batch of the next segments
SourceNext(size, cursor, batch_size) ==
    IF cursor = size THEN [kind |-> "None", cursor |-> cursor]
    ELSE [kind |-> "batch", cursor |-> cursor + Min(batch_size, size - cursor)]

\* no model step has been called yet
NoStep == [step |-> "none", batch |-> "none"]

\* lines 164-183 and 237-238: the data sources are built, n_step = 0
TrainDrivers ==
    {[pc |-> "epoch", epoch |-> 1, n_step |-> 0, sample_idx |-> 0,
      size |-> size, cursor |-> [n \in SourceNames |-> 0],
      n_epochs |-> n_epochs, batch_size |-> batch_size,
      eval_batch_size |-> eval_batch_size,
      sample_after_n_step |-> sample_after_n_step,
      validate_after_n_step |-> validate_after_n_step,
      lr_low |-> FALSE, handed |-> NoStep] :
        size \in {sz \in [SourceNames -> 0..MaxTestList] :
                     sz.train <= MaxList /\ sz.dev <= MaxList},
        n_epochs \in 1..MaxEpochs,
        batch_size \in 1..MaxBatch,
        eval_batch_size \in {1, MaxBatch},
        sample_after_n_step \in 1..MaxPeriod,
        validate_after_n_step \in 1..MaxPeriod}

InitTrain == InitSource({<<>>}, {1}) /\ driver \in TrainDrivers

\* the state of a DataSourceUnsupervised, which the driver does not use
sourceVars ==
    <<pc, data, history_len, max_uttr_len, heap, sessions, utterance_pool, _segments,
      statistics, sess_idx, segment_end_idx, negative_uttr, segments, cur_segment_idx,
      ret, call, epoch_trace>>

\* the conditions of lines 281 and 342
Due(n_step, period) == n_step > 0 /\ n_step % period = 0

\* lines 376-377: the step is over
StepEnd(d) == [d EXCEPT !.pc = "train", !.n_step = @ + 1]

\* lines 342-347: validation when due, begun by dev epoch_init(shuffle=False)
ToValidation(d) ==
    IF Due(d.n_step, d.validate_after_n_step)
    THEN [d EXCEPT !.pc = "dev", !.cursor.dev = 0]
    ELSE StepEnd(d)

\* lines 281-286: sampling when due, begun by test epoch_init(shuffle=True)
ToSampling(d) ==
    IF Due(d.n_step, d.sample_after_n_step)
    THEN [d EXCEPT !.pc = "sample", !.sample_idx = 0, !.cursor.test = 0]
    ELSE ToValidation(d)

\* lines 239-246: the head of the epoch loop; the learning rate check, then
\* train epoch_init(shuffle=True)
EpochBegin ==
    /\ driver.pc = "epoch"
    /\ driver' = IF driver.epoch > driver.n_epochs \/ driver.lr_low
                 THEN [driver EXCEPT !.pc = "finished"]
                 ELSE [driver EXCEPT !.pc = "train", !.cursor.train = 0]
    /\ UNCHANGED sourceVars

\* lines 247-257 and 281, 342: one turn of the train loop up to the model
\* step; None leaves the loop for the test evaluation (lines 380-381)
TrainTurn ==
    /\ driver.pc = "train"
    /\ \E r \in {SourceNext(driver.size.train, driver.cursor.train, driver.batch_size)} :
        driver' = IF r.kind = "None"
                  THEN [driver EXCEPT !.pc = "test", !.cursor.test = 0]
                  ELSE ToSampling([driver EXCEPT
                           !.cursor.train = r.cursor,
                           !.handed = [step |-> "train_step", batch |-> r.kind]])
    /\ UNCHANGED sourceVars

\* lines 287-293: one turn of the sampling loop; whatever next(1) returns is
\* handed to test_step, and None is then subscripted, which raises
SampleTurn ==
    /\ driver.pc = "sample"
    /\ \E r \in {SourceNext(driver.size.test, driver.cursor.test, 1)} :
        \E d \in {[driver EXCEPT
                      !.cursor.test = r.cursor,
                      !.handed = [step |-> "test_step", batch |-> r.kind],
                      !.sample_idx = @ + 1]} :
            driver' = IF r.kind = "None" THEN [d EXCEPT !.pc = "crashed"]
                      ELSE IF d.sample_idx = SampleCount THEN ToValidation(d)
                      ELSE d
    /\ UNCHANGED sourceVars

\* lines 348-354 and 371: one turn of the dev loop; after None the scheduler
\* may lower the learning rate to the minimum
DevTurn ==
    /\ driver.pc = "dev"
    /\ \E r \in {SourceNext(driver.size.dev, driver.cursor.dev, driver.eval_batch_size)} :
        IF r.kind = "None"
        THEN \E low \in BOOLEAN :
                driver' = StepEnd([driver EXCEPT !.lr_low = @ \/ low])
        ELSE driver' = [driver EXCEPT
                           !.cursor.dev = r.cursor,
                           !.handed = [step |-> "evaluate_step", batch |-> r.kind]]
    /\ UNCHANGED sourceVars

\* lines 382-388: one turn of the test evaluation loop; None ends the epoch
TestTurn ==
    /\ driver.pc = "test"
    /\ \E r \in {SourceNext(driver.size.test, driver.cursor.test, driver.eval_batch_size)} :
        driver' = IF r.kind = "None"
                  THEN [driver EXCEPT !.pc = "epoch", !.epoch = @ + 1]
                  ELSE [driver EXCEPT
                           !.cursor.test = r.cursor,
                           !.handed = [step |-> "test_step", batch |-> r.kind]]
    /\ UNCHANGED sourceVars

NextTrain ==
    \/ EpochBegin
    \/ TrainTurn
    \/ SampleTurn
    \/ DevTurn
    \/ TestTurn

SpecTrain == InitTrain /\ [][NextTrain]_vars

\* the id sequences _are_different_uttrs is tried on
IdSeqs == UNION {[1..n -> {BosId, EosId, EosId + 1}] : n \in 0..MaxIdsLen}

\* _are_different_uttrs alone, called on any two id sequences
AreDifferentCall ==
    /\ \E ids1 \in IdSeqs, ids2 \in IdSeqs :
        /\ call' = [op |-> "_are_different_uttrs", ids1 |-> ids1, ids2 |-> ids2]
        /\ ret' = AreDifferentOutcome(ids1, ids2)
    /\ UNCHANGED <<pc, data, history_len, max_uttr_len, heap, sessions, utterance_pool,
                   _segments, statistics, sess_idx, segment_end_idx, negative_uttr,
                   segments, cur_segment_idx, epoch_trace, driver>>

SpecCompare == InitOf({<<>>}, {1}) /\ [][AreDifferentCall]_vars

-----------------------------------------------------------------------------
(* Properties of the iteration protocol *)

\* the target utterance of a segment (segment_uttrs[-1])
Target(segment) == segment.utterances[Len(segment.utterances)]

\* a step that is a call of next on an initialised data source
IsNextCall == pc = "ready" /\ call'.op = "next"

\* C1: after epoch_init, whatever next calls were made, with whatever
\* arguments, the cursor lies between 0 and the number of segments.
C1_CursorInRange ==
    pc = "ready" =>
        /\ 0 <= cur_segment_idx
        /\ cur_segment_idx <= Len(segments)
        /\ Len(segments) = Len(_segments)

\* a next call has consumed the last segments of a non-empty epoch
C1_Witness ==
    /\ pc = "ready"
    /\ call.op = "next"
    /\ call.idx < Len(segments)
    /\ cur_segment_idx = Len(segments)

\* C2: next returns None exactly when the cursor equals the segment count at
\* the time of the call, and then it changes nothing; so an exhausted data
\* source stays exhausted, and keeps answering None, until epoch_init.
C2_NoneIffExhausted ==
    [][IsNextCall =>
          /\ (ret'.kind = "None") <=> (cur_segment_idx = Len(segments))
          /\ ret'.kind = "None" =>
                /\ UNCHANGED <<pc, heap, sessions, utterance_pool, _segments,
                               statistics, segments, cur_segment_idx>>
                /\ cur_segment_idx' = Len(segments')]_vars

\* None has been returned twice in a row on a non-empty segment list
C2_Witness ==
    /\ pc = "ready"
    /\ call.op = "next"
    /\ ret.kind = "None"
    /\ call.idx = Len(segments)
    /\ call.batch_size = MaxBatch
    /\ call.return_paired_Y
    /\ Len(segments) > 0

\* the positive segments among those at positions lo+1..hi
PositivesIn(segs, h, lo, hi) == {k \in (lo + 1)..hi : h[Target(segs[k])].is_next}

\* C3: in an epoch the cursor never decreases, and a next call advances it by
\* the number of segments it examined: those emitted into the batch plus the
\* positive segments skipped under return_paired_Y.
C3_CursorAdvance ==
    [][IsNextCall =>
          LET skipped == IF call'.return_paired_Y
                         THEN Cardinality(PositivesIn(segments, heap, cur_segment_idx,
                                                      cur_segment_idx'))
                         ELSE 0
          IN  /\ cur_segment_idx' >= cur_segment_idx
              /\ call'.skipped = skipped
              /\ call'.emitted = cur_segment_idx' - cur_segment_idx - skipped
              /\ ret'.kind = "batch" => Len(ret'.Y) = call'.emitted
              /\ ret'.kind = "batch" => Len(ret'.Y_is_next) = call'.emitted]_vars

\* a call under return_paired_Y has both skipped a positive and emitted a negative
C3_Witness ==
    /\ pc = "ready"
    /\ call.op = "next"
    /\ call.return_paired_Y
    /\ call.skipped > 0
    /\ call.emitted > 0
    /\ cur_segment_idx = call.idx + call.skipped + call.emitted

\* C4: a batch returned for batch_size >= 1 holds at most batch_size targets,
\* and fewer only when the call left the cursor at the segment count.
C4_BatchSize ==
    (pc = "ready" /\ call.op = "next" /\ ret.kind = "batch" /\ call.batch_size >= 1) =>
        /\ Len(ret.Y) <= call.batch_size
        /\ Len(ret.Y) < call.batch_size => cur_segment_idx = Len(segments)

\* the short last batch of an epoch
C4_Witness ==
    /\ pc = "ready"
    /\ call.op = "next"
    /\ ret.kind = "batch"
    /\ call.batch_size >= 1
    /\ Len(ret.Y) < call.batch_size
    /\ cur_segment_idx = Len(segments)

\* C5: under return_paired_Y (batch_size >= 1), with the cursor below the
\* segment count and only positive segments left, next returns a batch of 0
\* targets (not None) and leaves the cursor at the segment count.
C5_EmptyBatchReturned ==
    (/\ pc = "ready"
     /\ call.op = "next"
     /\ call.return_paired_Y
     /\ call.batch_size >= 1
     /\ call.idx < Len(segments)
     /\ PositivesIn(segments, heap, call.idx, Len(segments)) = (call.idx + 1)..Len(segments))
    => /\ ret.kind = "batch"
       /\ Len(ret.Y) = 0
       /\ cur_segment_idx = Len(segments)

-----------------------------------------------------------------------------
(* Properties of the construction *)

\* the (session, end index) pairs the segment builder visits
PairSet(ss) == UNION {{<<s, e>> : e \in 1..(Len(ss[s]) - 1)} : s \in 1..Len(ss)}

RECURSIVE PairsBefore(_, _)
PairsBefore(ss, s) ==
    IF s <= 1 THEN 0 ELSE Max(0, Len(ss[s - 1]) - 1) + PairsBefore(ss, s - 1)

\* the position of pair (s, e) in session order, then end-index order
Rank(ss, pr) == PairsBefore(ss, pr[1]) + pr[2]

PairAt(ss, k) == CHOOSE pr \in PairSet(ss) : Rank(ss, pr) = k

RECURSIVE ExpectedSegments(_)
ExpectedSegments(d) ==
    IF d = <<>> THEN 0
    ELSE 2 * Max(0, Len(Head(d)) - 1) + ExpectedSegments(Tail(d))

\* the segments whose context window starts in session s
SegmentsOfSession(s) ==
    {p \in 1..Len(_segments) :
        \E i \in 1..Len(sessions[s]) : _segments[p].utterances[1] = sessions[s][i]}

\* C6: a session of n >= 2 utterances contributes 2*(n-1) segments and one of
\* n <= 1 contributes none, so len and statistics n_segments are the sum of
\* 2*max(0, n-1) over the sessions.
C6_SegmentCount ==
    Constructed =>
        /\ Len(_segments) = ExpectedSegments(data)
        /\ statistics.n_segments = ExpectedSegments(data)
        /\ \A s \in 1..Len(data) :
              Cardinality(SegmentsOfSession(s)) = 2 * Max(0, Len(data[s]) - 1)

\* a session of two utterances and a session of one have been built
C6_Witness ==
    /\ Constructed
    /\ Len(data) = 2
    /\ Len(data[1]) = 2
    /\ Len(data[2]) = 1
    /\ Len(_segments) = 2
    /\ statistics.n_segments = 2

IsPositiveOf(segment, u, end) ==
    /\ Target(segment) = u[end + 1]
    /\ heap[Target(segment)].is_next

IsNegativeOf(segment, u, end) ==
    /\ ~heap[Target(segment)].is_next
    /\ heap[Target(segment)].reference_uttr = u[end + 1]
    /\ segment.utterances[Len(segment.utterances) - 1] = u[end]

C8_Window ==
    \A p \in 1..Len(_segments) :
        LET pr == PairAt(sessions, (p + 1) \div 2)
            u == sessions[pr[1]]
            end == pr[2]
            uttrs == _segments[p].utterances
            m == Min(end, history_len)
            first == IF end - history_len > 0 THEN end - history_len ELSE 0
        IN  /\ Len(uttrs) = m + 1
            /\ 2 <= Len(uttrs)
            /\ Len(uttrs) <= history_len + 1
            /\ \A j \in 1..m : uttrs[j] = u[first + j]
            /\ p % 2 = 0 =>
                  SubSeq(uttrs, 1, m) = SubSeq(_segments[p - 1].utterances, 1, m)

\* with history_len 1, the pair of end index 2 has lost utterance 0
C8_Witness ==
    /\ pc = "uninitialized"
    /\ history_len = 1
    /\ Len(sessions) >= 1
    /\ Len(sessions[1]) = 3
    /\ Len(_segments) = 4
    /\ _segments[3].utterances = <<sessions[1][2], sessions[1][3]>>
    /\ Len(_segments[4].utterances) = 2
    /\ _segments[4].utterances[1] = sessions[1][2]

\* the negative segments built so far
NegativePositions == {p \in 1..Len(_segments) : p % 2 = 0}

\* C9: the token-id set A of a negative target and the set B of its true
\* positive have (|A&B|/|A| + |A&B|/|B|)/2 < 0.8, so the negative is no copy
\* of the positive nor of an utterance with the same token-id set.
C9_NegativeDiffers ==
    \A p \in NegativePositions :
        LET pr == PairAt(sessions, p \div 2)
            A == IdSet(heap[Target(_segments[p])].token_ids)
            B == IdSet(heap[sessions[pr[1]][pr[2] + 1]].token_ids)
            i == Cardinality(A \cap B)
        IN  /\ 10 * i * (Cardinality(A) + Cardinality(B)) < 16 * Cardinality(A) * Cardinality(B)
            /\ A # B

\* a negative was accepted although the pool also holds another utterance
\* with the token-id set of the positive
C9_Witness ==
    /\ pc = "uninitialized"
    /\ Len(_segments) >= 2
    /\ \E q \in 1..Len(utterance_pool) :
          /\ utterance_pool[q] # sessions[PairAt(sessions, 1)[1]][2]
          /\ IdSet(heap[utterance_pool[q]].token_ids)
                = IdSet(heap[sessions[PairAt(sessions, 1)[1]][2]].token_ids)
    /\ heap[Target(_segments[2])].text # heap[Target(_segments[1])].text

PoolIds == {utterance_pool[q] : q \in 1..Len(utterance_pool)}

\* C10: marking the negatives leaves the shared data intact: after the
\* construction every pool and session utterance has is_next true, every
\* u[end] with end >= 1 refers to itself, and every negative target is an
\* object of its own with is_next false that refers to the u[end] of its
\* segment.
C10_PoolIntact ==
    Constructed =>
        /\ \A o \in PoolIds : heap[o].is_next
        /\ \A s \in 1..Len(sessions) : \A i \in 1..Len(sessions[s]) :
              /\ sessions[s][i] \in PoolIds
              /\ heap[sessions[s][i]].is_next
              /\ heap[sessions[s][i]].token_ids
                    = ConvertTokensToIds(Take(data[s][i].text, max_uttr_len))
              /\ i >= 2 => heap[sessions[s][i]].reference_uttr = sessions[s][i]
        /\ \A p \in NegativePositions :
              LET pr == PairAt(sessions, p \div 2)
                  neg == Target(_segments[p])
              IN  /\ neg \notin PoolIds
                  /\ ~heap[neg].is_next
                  /\ heap[neg].reference_uttr = sessions[pr[1]][pr[2] + 1]

\* the last negative is a copy of an utterance that is itself a positive
\* (its self-reference was copied and then redirected)
C10_Witness ==
    /\ pc = "uninitialized"
    /\ Len(_segments) >= 4
    /\ negative_uttr # 0
    /\ heap[negative_uttr].reference_uttr = negative_uttr
    /\ heap[Target(_segments[Len(_segments)])].text = heap[negative_uttr].text

-----------------------------------------------------------------------------
(* Properties of the batches *)

\* a row of a tensor without the pad ids (no token id is the pad id)
Unpad(row) == SelectSeq(row, LAMBDA x : x # PadId)

\* the position in self.segments of the j-th target of the last batch
BatchPosition(j) == call.positions[j]

\* C11: in an unshuffled epoch whose next calls all pass return_paired_Y=True,
\* the targets emitted so far are the negatives before the cursor, each once
\* and in canonical order (so segment count / 2 in all once drained); a call
\* with batch_size >= 1 before exhaustion returns a batch whose Y_is_next are
\* all false and whose Y_ref rows are the token ids of the positive u[end] of
\* the negative's session and end index.
C11_PairedDrain ==
    (pc = "ready" /\ segments = _segments /\ epoch_trace.paired = {TRUE}) =>
        /\ epoch_trace.positions = [k \in 1..(cur_segment_idx \div 2) |-> 2 * k]
        /\ cur_segment_idx = Len(segments) =>
              Len(epoch_trace.positions) * 2 = Len(_segments)
        /\ (/\ call.op = "next"
             /\ call.batch_size >= 1
             /\ call.idx < Len(segments)) =>
              /\ ret.kind = "batch"
              /\ \A j \in 1..Len(ret.Y) :
                    LET p == BatchPosition(j)
                        pr == PairAt(sessions, p \div 2)
                    IN  /\ ~ret.Y_is_next[j]
                        /\ Unpad(ret.Y[j]) = heap[Target(segments[p])].token_ids
                        /\ Unpad(ret.Y_ref[j]) = heap[sessions[pr[1]][pr[2] + 1]].token_ids

\* a paired call has drained the two negatives of an epoch of four segments,
\* and one of the two references needed padding
C11_Witness ==
    /\ pc = "ready"
    /\ segments = _segments
    /\ epoch_trace.paired = {TRUE}
    /\ call.op = "next"
    /\ call.idx = 0
    /\ cur_segment_idx = 4
    /\ Len(segments) = 4
    /\ ret.kind = "batch"
    /\ Len(ret.Y_ref) = 2
    /\ \E j \in 1..2 : Unpad(ret.Y_ref[j]) # ret.Y_ref[j]

\* how often v occurs in seq
Count(seq, v) == Cardinality({i \in DOMAIN seq : seq[i] = v})

SameBag(a, b) ==
    /\ Len(a) = Len(b)
    /\ \A i \in DOMAIN a : Count(a, a[i]) = Count(b, a[i])

\* the context slots of sample b of the last batch, as <<token ids, floor id>>
Slots(b) == [j \in 1..Len(ret.X[b]) |-> <<Unpad(ret.X[b][j]), ret.X_floor[b][j]>>]

\* the real context utterances of the segment of sample b
RealContext(b) ==
    LET uttrs == segments[BatchPosition(b)].utterances
    IN  [j \in 1..(Len(uttrs) - 1) |-> <<heap[uttrs[j]].token_ids, heap[uttrs[j]].floor_id>>]

Placeholder == <<EmptyIds, 0>>

\* C12: every sample of a batch has exactly history_len context slots in X
\* and in X_floor, holding the len-1 real context utterances of its segment
\* and history_len-(len-1) placeholders (bos/eos only, floor id 0); so X has
\* history_len times as many rows as Y, and the regrouping never fails.
C12_ContextSlots ==
    (pc = "ready" /\ call.op = "next") =>
        /\ ret.kind = "error" => ret.error # "RuntimeError"
        /\ ret.kind = "batch" =>
              /\ Len(ret.X) = Len(ret.Y)
              /\ Len(ret.X_floor) = Len(ret.Y)
              /\ \A b \in 1..Len(ret.Y) :
                    LET real == RealContext(b)
                    IN  /\ Len(ret.X[b]) = history_len
                        /\ Len(ret.X_floor[b]) = history_len
                        /\ Len(real) <= history_len
                        /\ SameBag(Slots(b),
                                   real \o Repeat(Placeholder, history_len - Len(real)))

\* a batch of a sample of one real context utterance and one placeholder and
\* a sample of two real context utterances and no placeholder
C12_Witness ==
    /\ pc = "ready"
    /\ call.op = "next"
    /\ ret.kind = "batch"
    /\ history_len = 2
    /\ Len(ret.Y) = 2
    /\ Len(RealContext(1)) = 1
    /\ Count(Slots(1), Placeholder) = 1
    /\ Len(RealContext(2)) = 2
    /\ Count(Slots(2), Placeholder) = 0

\* C13 as stated: in every sample whose segment has fewer than history_len
\* context utterances the placeholders come first and the real context
\* utterances last, in session order.
C13_LeftPadding ==
    (pc = "ready" /\ call.op = "next" /\ ret.kind = "batch") =>
        \A b \in 1..Len(ret.Y) :
            LET real == RealContext(b)
            IN  Len(real) < history_len =>
                    Slots(b) = Repeat(Placeholder, history_len - Len(real)) \o real

\* C13, amended: the padding is on the right; in every sample the real
\* context utterances occupy the leading slots, in session order, and the
\* placeholders the trailing ones.
C13_RightPadding ==
    (pc = "ready" /\ call.op = "next" /\ ret.kind = "batch") =>
        \A b \in 1..Len(ret.Y) :
            LET real == RealContext(b)
            IN  Slots(b) = real \o Repeat(Placeholder, history_len - Len(real))

\* a sample of history_len 2 whose one real context utterance is in the
\* first slot and whose placeholder is in the second
C13_Witness ==
    /\ pc = "ready"
    /\ call.op = "next"
    /\ ret.kind = "batch"
    /\ history_len = 2
    /\ Len(RealContext(1)) = 1
    /\ Slots(1)[1] = RealContext(1)[1]
    /\ Slots(1)[1] # Placeholder
    /\ Slots(1)[2] = Placeholder

-----------------------------------------------------------------------------
(* Properties of the epochs *)

\* what utterance object o holds, its reference given by what it refers to
UttrContent(h, o) ==
    [text |-> h[o].text,
     token_ids |-> h[o].token_ids,
     floor_id |-> h[o].floor_id,
     is_next |-> h[o].is_next,
     reference |-> IF h[o].reference_uttr = 0 THEN <<>>
                   ELSE h[h[o].reference_uttr].token_ids]

SegmentContent(h, segment) ==
    [j \in 1..Len(segment.utterances) |-> UttrContent(h, segment.utterances[j])]

\* order o maps the positions of the epoch's list to those of the canonical list
IsPermutationBy(o) ==
    \A k \in 1..Len(segments) :
        SegmentContent(heap, segments[k]) = SegmentContent(heap, _segments[o[k]])

\* C14: an epoch begun without shuffle iterates the canonical list itself; an
\* epoch begun with shuffle iterates a permutation of it; in both, the calls
\* of an unfiltered epoch emit the positions 1, 2, ... up to the cursor, each
\* once, in the batches they return, so a drained one has emitted every
\* segment exactly once.
C14_EpochOrder ==
    pc = "ready" =>
        /\ ~epoch_trace.shuffle => segments = _segments
        /\ Len(segments) = Len(_segments)
        /\ \E o \in Orders(1..Len(segments)) : IsPermutationBy(o)
        /\ epoch_trace.paired = {FALSE} =>
              /\ epoch_trace.positions = [k \in 1..cur_segment_idx |-> k]
              /\ (call.op = "next" /\ call.emitted > 0) =>
                    /\ ret.kind = "batch"
                    /\ Len(ret.Y) = call.emitted
                    /\ \A j \in 1..Len(ret.Y) :
                          Unpad(ret.Y[j]) = heap[Target(segments[BatchPosition(j)])].token_ids

\* a shuffled epoch whose first segment is not the first canonical one has
\* been drained by unfiltered calls
C14_Witness ==
    /\ pc = "ready"
    /\ epoch_trace.shuffle
    /\ epoch_trace.paired = {FALSE}
    /\ Len(segments) = 2
    /\ cur_segment_idx = 2
    /\ SegmentContent(heap, segments[1]) # SegmentContent(heap, _segments[1])
    /\ epoch_trace.positions = <<1, 2>>
    /\ call.op = "next"
    /\ call.idx = 1

\* the objects made by the construction, without the copies of the epochs
Constructed_Objects(h) == [o \in Originals(h) |-> h[o]]

\* C15: an epoch_init (with or without shuffle) or a next call, in any state
\* of a constructed data source, leaves the objects of the construction, the
\* canonical segment list, the utterance pool and the statistics (so the
\* value of len too) as they were; a next call moves only the cursor.
C15_Frame ==
    [][(Constructed /\ call'.op \in {"epoch_init", "next"}) =>
          /\ Constructed_Objects(heap') = Constructed_Objects(heap)
          /\ UNCHANGED <<data, sessions, utterance_pool, _segments, statistics,
                         history_len, max_uttr_len>>
          /\ Len(_segments') = Len(_segments)
          /\ call'.op = "next" => UNCHANGED <<segments, heap>>]_vars

\* epoch_init with shuffle has abandoned an epoch midway
C15_Witness ==
    /\ call.op = "epoch_init"
    /\ call.shuffle
    /\ call.from = "ready"
    /\ call.idx = 1
    /\ Len(segments) = 2
    /\ cur_segment_idx = 0
    /\ statistics.n_segments = 2

\* C16: epoch_init sets the cursor to 0 whether the data source was
\* uninitialized, midway through an epoch or exhausted; in the epoch it
\* begins, unfiltered calls have emitted as many targets as the cursor
\* passed, so all the segments once drained, whatever the previous epoch did.
C16_Restart ==
    /\ call.op = "epoch_init" =>
          /\ call.from \in {"uninitialized", "ready"}
          /\ pc = "ready"
          /\ cur_segment_idx = 0
          /\ epoch_trace.positions = <<>>
    /\ (pc = "ready" /\ epoch_trace.paired \subseteq {FALSE}) =>
          /\ Len(epoch_trace.positions) = cur_segment_idx
          /\ cur_segment_idx = Len(segments) =>
                Len(epoch_trace.positions) = statistics.n_segments

\* epoch_init has restarted an exhausted data source
C16_Witness ==
    /\ call.op = "epoch_init"
    /\ call.from = "ready"
    /\ call.idx = Len(segments)
    /\ Len(segments) = 2
    /\ cur_segment_idx = 0

-----------------------------------------------------------------------------
(* Termination of the construction *)

\* the token ids construction gives input utterance u
InputIds(u) == ConvertTokensToIds(Take(ConvertStringToTokens(u.text), max_uttr_len))

\* the coverage (|A&B|/|A| + |A&B|/|B|)/2 of two id sequences is below 0.8
CoverageBelow(ids1, ids2) ==
    LET A == IdSet(ids1)
        B == IdSet(ids2)
        i == Cardinality(A \cap B)
    IN  10 * i * (Cardinality(A) + Cardinality(B)) < 16 * Cardinality(A) * Cardinality(B)

\* some utterance of the dataset qualifies as a negative of target u
HasCandidate(u) ==
    \E s \in 1..Len(data) : \E i \in 1..Len(data[s]) :
        CoverageBelow(InputIds(u), InputIds(data[s][i]))

\* every positive target of the dataset has a candidate
Feasible ==
    \A s \in 1..Len(data) : \A e \in 2..Len(data[s]) : HasCandidate(data[s][e])

\* the sampling loop is at a target that no utterance of the pool qualifies for
Starving ==
    /\ pc = "sampling"
    /\ ~HasCandidate(data[sess_idx][segment_end_idx + 1])

\* C17: under fair draws the construction of a dataset whose every positive
\* target has a candidate in the pool terminates; that of a dataset with a
\* target without candidate reaches that target and then draws for ever: it
\* is never constructed and it fails with no error.
C17_SamplingTermination ==
    /\ <>(IF Feasible THEN pc = "uninitialized" ELSE Starving)
    /\ [](~Feasible => (pc \in {"new", "sampling"} /\ ret = NoRet))
    /\ [][Starving => (Starving' /\ ret' = NoRet)]_vars

\* the loop has accepted a negative for the first target, has reached a second
\* target without candidate and has drawn, and rejected, the target itself
C17_Witness ==
    /\ Starving
    /\ Len(_segments) = 3
    /\ negative_uttr = PositiveUttr

-----------------------------------------------------------------------------
(* Misuse and invalid inputs *)

\* C18: a next call on a constructed data source whose epoch_init was never
\* called raises an error; it returns neither a batch nor None, and leaves
\* the data source uninitialized.
C18_NextBeforeInit ==
    (pc = "uninitialized" /\ call.op = "next") =>
        /\ ret.kind = "error"
        /\ ret.kind \notin {"batch", "None"}
        /\ segments = <<>>
        /\ cur_segment_idx = 0

\* next(1) has been called on a data source of two segments before epoch_init
C18_Witness ==
    /\ pc = "uninitialized"
    /\ call.op = "next"
    /\ call.batch_size = 1
    /\ Len(_segments) = 2
    /\ ret.kind = "error"

\* C19: _are_different_uttrs called with an empty id sequence on either side
\* returns a value (it rejects the candidate, or accepts it on a coverage of
\* 0) and raises no division by zero.
C19_EmptyDefined ==
    (/\ call.op = "_are_different_uttrs"
     /\ (call.ids1 = <<>> \/ call.ids2 = <<>>)) =>
        /\ ret.kind = "value"
        /\ ret.value \in BOOLEAN

InvalidFloor(u) == u.floor \notin {"A", "B"}

InputUttrs == UNION {{data[s][i] : i \in 1..Len(data[s])} : s \in 1..Len(data)}

\* C20: a constructed data source has floor_id 0 for every utterance of floor
\* "A" and 1 for every one of floor "B", and no other floor; construction of
\* a dataset with another floor label ends in an error and no data source:
\* no pool, no segments, and no later call.
C20_FloorLabels ==
    /\ Constructed =>
          /\ \A u \in InputUttrs : ~InvalidFloor(u)
          /\ \A o \in PoolIds :
                heap[o].floor_id = (IF heap[o].floor = "A" THEN 0 ELSE 1)
          /\ \A s \in 1..Len(data) : \A i \in 1..Len(data[s]) :
                heap[sessions[s][i]].floor = data[s][i].floor
    /\ (\E u \in InputUttrs : InvalidFloor(u)) =>
          /\ pc \in {"new", "failed"}
          /\ utterance_pool = <<>>
          /\ _segments = <<>>
    /\ pc = "failed" =>
          /\ \E u \in InputUttrs : InvalidFloor(u)
          /\ ret = [kind |-> "error", error |-> "ValueError"]
          /\ call.op = "__init__"

\* construction has failed on a session whose first utterance has a valid
\* floor and whose second has not
C20_Witness ==
    /\ pc = "failed"
    /\ Len(data) = 1
    /\ Len(data[1]) = 2
    /\ data[1][1].floor = "A"
    /\ data[1][2].floor = "C"
    /\ ret.kind = "error"

-----------------------------------------------------------------------------
(* Properties of the caller's loop *)

\* ceil(n / b)
CeilDiv(n, b) == (n + b - 1) \div b

\* what the loop has received so far
DrainAccount ==
    /\ driver.pc # "crashed"
    /\ driver.pc \in {"loop", "done"} =>
          /\ driver.n_targets = cur_segment_idx
          /\ driver.n_batches = CeilDiv(cur_segment_idx, driver.batch_size)
          /\ ret.kind # "error"
          /\ ret.kind = "batch" =>
                /\ 1 <= Len(ret.Y)
                /\ Len(ret.Y) <= driver.batch_size
                /\ Len(ret.Y) < driver.batch_size => cur_segment_idx = Len(segments)
          /\ driver.pc = "done" =>
                /\ ret.kind = "None"
                /\ driver.n_targets = Len(_segments)
                /\ driver.n_batches = CeilDiv(Len(_segments), driver.batch_size)

\* C21: the loop `epoch_init; next(batch_size) until None` with batch_size >= 1
\* ends; over N segments it receives ceil(N / batch_size) batches and then
\* None, each batch of batch_size targets but the last, which holds the
\* rest, N targets in all; over no segment the first call returns None.
C21_DrainLoop ==
    /\ [][DrainAccount']_vars
    /\ (driver.pc = "loop") ~> (driver.pc = "done")

\* a loop of batch size 3 over two segments has ended after one short batch
C21_Witness ==
    /\ driver.pc = "done"
    /\ driver.batch_size = 3
    /\ Len(_segments) = 2
    /\ driver.n_batches = 1
    /\ driver.n_targets = 2

-----------------------------------------------------------------------------
(* Properties of unshuffled epochs under any mix of calls *)

\* C22: in an unshuffled epoch the last segment, if there is one, is a
\* negative; so every next call with batch_size >= 1, filtering or not, after
\* whatever calls came before, returns None or a batch of at least one
\* target, and never fails on an empty batch.
C22_CanonicalBatch ==
    (pc = "ready" /\ ~epoch_trace.shuffle) =>
        /\ segments = _segments
        /\ Len(segments) > 0 => ~heap[Target(segments[Len(segments)])].is_next
        /\ (call.op = "next" /\ call.batch_size >= 1 /\ ret.kind # "None") =>
              /\ ret.kind = "batch"
              /\ 1 <= Len(ret.Y)
              /\ Len(ret.Y) <= call.batch_size

\* after an unfiltered call, a filtering call of batch size 2 met the last
\* positive and the last negative of four segments: it skipped the one and
\* returned the other
C22_Witness ==
    /\ pc = "ready"
    /\ ~epoch_trace.shuffle
    /\ epoch_trace.paired = {TRUE, FALSE}
    /\ Len(segments) = 4
    /\ call.op = "next"
    /\ call.return_paired_Y
    /\ call.batch_size = 2
    /\ call.idx = 2
    /\ call.skipped = 1
    /\ cur_segment_idx = 4
    /\ ret.kind = "batch"
    /\ Len(ret.Y) = 1

-----------------------------------------------------------------------------
(* Properties of the reference utterances *)

\* the object of the construction that o is, or is the epoch's copy of
OriginalOf(o) == IF o < 0 THEN -o ELSE o

\* the (session, end index) of a segment, read off its last context
\* utterance u[end-1]
OwnPair(segment) ==
    CHOOSE pr \in PairSet(sessions) :
        sessions[pr[1]][pr[2]] =
            OriginalOf(segment.utterances[Len(segment.utterances) - 1])

\* the true positive u[end] of the segment's own session and end index
TruePositive(segment) == sessions[OwnPair(segment)[1]][OwnPair(segment)[2] + 1]

\* C23: in every epoch, shuffled or not, the target of every segment refers
\* to the true positive u[end] of the segment's own session and end index (in
\* a shuffled epoch to the epoch's copy of it, which has the same token ids),
\* and a target with is_next true refers to itself; so in every batch,
\* filtered or not, each Y_ref row holds the token ids of that positive, and
\* holds the token ids of the Y row where Y_is_next is true.
C23_Reference ==
    pc = "ready" =>
        /\ \A p \in 1..Len(segments) :
              LET t == Target(segments[p])
                  positive == TruePositive(segments[p])
              IN  /\ heap[t].reference_uttr = (IF t < 0 THEN -positive ELSE positive)
                  /\ heap[heap[t].reference_uttr].token_ids = heap[positive].token_ids
                  /\ heap[t].is_next <=> heap[t].reference_uttr = t
        /\ (call.op = "next" /\ ret.kind = "batch") =>
              \A j \in 1..Len(ret.Y) :
                  LET segment == segments[BatchPosition(j)]
                  IN  /\ Unpad(ret.Y_ref[j]) = heap[TruePositive(segment)].token_ids
                      /\ ret.Y_is_next[j] = heap[Target(segment)].is_next
                      /\ ret.Y_is_next[j] => Unpad(ret.Y_ref[j]) = Unpad(ret.Y[j])

\* a call in a shuffled epoch of four segments has returned two targets of
\* different (session, end index), with different references: a positive,
\* whose Y row is padded further than its Y_ref row, and a negative
C23_Witness ==
    /\ pc = "ready"
    /\ epoch_trace.shuffle
    /\ Len(segments) = 4
    /\ call.op = "next"
    /\ ret.kind = "batch"
    /\ Len(ret.Y) = 2
    /\ OwnPair(segments[BatchPosition(1)]) # OwnPair(segments[BatchPosition(2)])
    /\ Unpad(ret.Y_ref[1]) # Unpad(ret.Y_ref[2])
    /\ ret.Y_is_next[1]
    /\ ret.Y[1] # ret.Y_ref[1]
    /\ ~ret.Y_is_next[2]

-----------------------------------------------------------------------------
(* Properties of the training driver *)

\* C24: whatever the segment counts of the train, dev and test lists, no
\* model step (train_step, evaluate_step, test_step, the five test_step
\* calls of the sampling loop included) is handed None.
C24_NeverNone == driver.handed.batch # "None"

\* the sampling loop has drawn its five batches from a test list that holds
\* them, and the step went on
C24_Witness ==
    /\ driver.pc \in {"dev", "train"}
    /\ driver.sample_idx = SampleCount
    /\ driver.handed = [step |-> "test_step", batch |-> "batch"]
    /\ driver.size.test >= SampleCount
    /\ driver.cursor.test = SampleCount

====
